---- MODULE Spec2Model ----
(***************************************************************************)
(* DerivAPIConnection (src/modules/api_connection.py) as a state machine.  *)
(*                                                                         *)
(* The program is a set of asyncio tasks on one event loop: a step of the  *)
(* model is the code a task runs between two suspension points (await).    *)
(*   - caller tasks run the public operations (connect, disconnect,        *)
(*     reconnect, switch_account, send_request, subscribe, unsubscribe);   *)
(*   - every transport opened by connect() gets a _message_handler task    *)
(*     and a _ping_handler task (asyncio.create_task, lines 108-110);      *)
(*   - a _ping_handler that sees a bad probe spawns a reconnect() task;    *)
(*   - every simulated subscription gets a _simulate_subscription task.    *)
(* The remote venue and the websockets library are the environment: the    *)
(* remote answers (or never answers) the frames it was sent, pushes        *)
(* frames for the subscriptions it confirmed, and may close a transport    *)
(* cleanly (the async iterator just ends) or abnormally (the iterator      *)
(* raises ConnectionClosedError).                                          *)
(***************************************************************************)
EXTENDS Integers, FiniteSets, Sequences, TLC

\* ------------------------------------------------------------------ bounds
NumCallers == 3
MaxTransports == 3
MaxOps == 4
WideOps == 2
ProbeOps == 3
MaxTicks == 5
SHORT_MA_PERIOD == 2
MEDIUM_MA_PERIOD == 3
LONG_MA_PERIOD == 4
MaxContracts == 2
MAX_DAILY_TRADES == 2
MAX_DAILY_LOSS == 1
FairOps == 3
MaxSubs == 1
NumIds == 2
RetryOps == 8
DispatchOps == 3
CallbackOps == 3

\* ------------------------------------------------------- program constants
MAX_RECONNECT_ATTEMPTS == 5
STAKE_AMOUNT == 10
\* config.SIGNAL_THRESHOLD, 0.5, as a fraction
SIGNAL_THRESHOLD == [num |-> 1, den |-> 2]

\* reconnect() lines 419-423; config.py lines 68-72 (the environment sets no
\* endpoint of its own)
alternate_endpoints ==
    <<"wss://ws.binaryws.com", "wss://ws.derivapi.com", "wss://52.53.244.116">>
DERIV_WSS_ENDPOINT == "wss://ws.derivapi.com"
DERIV_DEMO_WSS_ENDPOINT == DERIV_WSS_ENDPOINT

\* Configuration read by switch_account (lines 705-709).  config.py sets
\* ENABLE_SIMULATION (true unless the environment says otherwise) and takes
\* the tokens from the environment: here the token of the real account is a
\* development placeholder and the token of the demo account is not, so that
\* switching accounts reaches both the live and the simulated operation.
ENABLE_SIMULATION == TRUE
DERIV_API_TOKEN_DEMO == [len |-> 32, alnum |-> TRUE]
DERIV_API_TOKEN_REAL == [len |-> 15, alnum |-> TRUE]

\* len(token) == 15 and token.isalnum(), line 75
_is_placeholder_token(token) == token.len = 15 /\ token.alnum

\* ------------------------------------------------------------------- names
None == 0
SimSession == -1

Callers == 1..NumCallers
Transports == 1..MaxTransports
PingTask(w) == NumCallers + w
RcTask(w) == NumCallers + MaxTransports + w
PingTasks == {PingTask(w) : w \in Transports}
RcTasks == {RcTask(w) : w \in Transports}
\* The handler of transport w while it awaits a request its callback makes
CbTask(w) == NumCallers + 2 * MaxTransports + w
CbTasks == {CbTask(w) : w \in Transports}
Tasks == Callers \cup PingTasks \cup RcTasks \cup CbTasks
SubIds == 1..MaxSubs
Contracts == 1..MaxContracts
Signals == {"hold", "buy", "sell"}
Profits == {-1, 1}
Quotes == {1, 2, 4}
Missing == -2
StakeAmounts == {0, STAKE_AMOUNT}
Ids == 1..NumIds

\* A run has all but one of the callers call at most MaxOps public operations
\* over one transport, or WideOps of them over all but one of the transports,
\* or has all the callers call RetryOps of them with no transport that can be
\* opened.
Budgets == {[ops |-> MaxOps, ws |-> 1, callers |-> NumCallers - 1],
            [ops |-> WideOps, ws |-> MaxTransports - 1,
             callers |-> NumCallers - 1],
            [ops |-> RetryOps, ws |-> 0, callers |-> NumCallers]}

\* The frames a remote may send unasked, as _message_handler sees them
\* (lines 315-336): text that is not JSON, JSON that is not an object, or an
\* object with a req_id (0: none), a msg_type that is a push type or not,
\* and, for a push type, a subscription field: absent (0), not an object
\* (BadSub), or an object with an id, whose callback then returns or raises.
BadSub == -1
NoFrame == [w |-> 0, shape |-> "none", req_id |-> 0, push |-> FALSE,
            sub |-> 0, raises |-> FALSE]
Frames ==
    {[NoFrame EXCEPT !.w = w, !.shape = sh] :
        w \in Transports, sh \in {"text", "value"}}
    \cup {[NoFrame EXCEPT !.w = w, !.shape = "object", !.req_id = i] :
             w \in Transports, i \in Ids \cup {0}}
    \cup {[w |-> w, shape |-> "object", req_id |-> i, push |-> TRUE,
            sub |-> s, raises |-> FALSE] :
             w \in Transports, i \in Ids \cup {0},
             s \in SubIds \cup {0, BadSub}}
    \cup {[w |-> w, shape |-> "object", req_id |-> i, push |-> TRUE,
            sub |-> s, raises |-> TRUE] :
             w \in Transports, i \in Ids \cup {0}, s \in SubIds}

NoResp == [from |-> 0, kind |-> "none", ok |-> FALSE, sub |-> 0]
NoRet == [task |-> 0, op |-> "none", val |-> "none", from |-> 0,
          doomed |-> FALSE, cold |-> FALSE, again |-> FALSE]

VARIABLES
    simulation_mode,      \* self.simulation_mode
    is_demo,              \* self.is_demo
    is_connected,         \* self.is_connected
    websocket,            \* self.websocket: None or the transport it names
    connection_attempts,  \* self.connection_attempts
    endpoint,             \* self.endpoint
    account_info,         \* self.account_info: None, SimSession, or the
                          \* transport whose handshake response it holds
    pending_requests,     \* self.pending_requests: req_id -> waiting task
    subscriptions,        \* self.subscriptions: the registered ids
    now,                  \* the millisecond of the latest req_id stamped,
                          \* 0 once time is known to have moved past it
    wsState,              \* per transport: unused, open, closed, or closedErr
                          \* while its handler has yet to see the abnormal close
    outbox,               \* per transport: frames sent, not answered yet
    srvSubs,              \* per transport: subscriptions the remote feeds
    nextSub,              \* subscription ids issued so far
    op, pc,               \* per task: operation it runs, where it is in it
    rid,                  \* per task: req_id of its _send_request
    tws,                  \* per task: transport its send/close acts on
    fut,                  \* per task: state of its asyncio future
    resp,                 \* per task: the response its future was given
    use_demo,             \* per task: the argument of its switch_account
    subscription_id,      \* per task: the argument of its unsubscribe
    lastRet,              \* the return this step made to a caller, if any
    inbound,              \* the unsolicited frame a _message_handler read in
                          \* this step, or the update a simulated feed made
                          \* (its w is 0), if any
    hpc,                  \* per transport: its _message_handler task
    fpc,                  \* per subscription: its _simulate_subscription task
    cbTick,               \* per subscription: 0 until its callback is first
                          \* called, then 1 or 2, changing at each call
    deadSubs,             \* ids registered when some disconnect() returned
    doomed,               \* tasks in send_request when disconnect() ran
    unsub,                \* per subscription: unsubscribe was called for it
                          \* while registered ("called"), returned True ("done")
    cold,                 \* the callers inside a live connect() that began
                          \* with no connection (is_connected false, no
                          \* transport)
    run,                  \* since the last successful (re)connection: the
                          \* transport-open attempts of reconnect() calls
                          \* and the reconnect() calls that failed
    authenticated,        \* the result of the latest successful
                          \* authentication: None, SimSession, or the
                          \* transport whose authorize response was handed
                          \* to the connect() awaiting it
    nops,                 \* public operations called so far
    budget,               \* the run's bounds: operations, transports
    active_contract,      \* DerivTrader.active_contract: None or a contract
    daily_trades,         \* DerivTrader.daily_trades: the profits of the day
    account_balance,      \* DerivTrader.account_balance: None or zero, or
                          \* positive
    stake_amount,         \* DerivTrader.stake_amount
    running,              \* DerivTrader.running
    ticking,              \* whether _handle_tick is subscribed to the ticks
    xpc,                  \* where the tick callback is in _execute_trade
    xsig,                 \* the signal of the _execute_trade in progress
    mpc,                  \* per contract: where its _monitor_contract is
    bought,               \* contracts bought so far
    sent,                 \* requests _execute_trade has sent to the api
    nticks,               \* ticks delivered so far
    prices,               \* DerivTrader.strategy.prices
    tev                   \* what the trader did in the latest step

conn == <<simulation_mode, is_demo, is_connected, websocket,
          connection_attempts, endpoint, account_info>>
regs == <<pending_requests, subscriptions>>
wire == <<wsState, outbox, srvSubs, nextSub>>
task == <<op, pc, rid, tws, fut, resp, use_demo, subscription_id>>
bg == <<hpc, fpc, cbTick>>
hist == <<deadSubs, doomed, unsub, cold, run, authenticated>>
trader == <<active_contract, daily_trades, account_balance, stake_amount,
            running, ticking, xpc, xsig, mpc, bought, sent, nticks, prices,
            tev>>
manager == <<conn, regs, now, wire, task, lastRet, inbound, bg, hist, nops,
             budget>>
vars == <<conn, regs, now, wire, task, lastRet, inbound, bg, hist, nops,
         budget, trader>>

\* DerivTrader.__init__, lines 27-43 (stake_amount apart)
Built ==
    /\ active_contract = None
    /\ daily_trades = <<>>
    /\ account_balance = 0
    /\ running = FALSE
    /\ ticking = "no"
    /\ xpc = "idle"
    /\ xsig = "hold"
    /\ mpc = [c \in Contracts |-> "none"]
    /\ bought = 0
    /\ sent = 0
    /\ nticks = 0
    /\ prices = <<>>
    /\ tev = "none"

\* DerivAPIConnection.__init__, lines 35-71
Created ==
    /\ simulation_mode = FALSE
    /\ is_demo = TRUE
    /\ is_connected = FALSE
    /\ websocket = None
    /\ connection_attempts = 0
    /\ endpoint = "wss://ws.binaryws.com"
    /\ account_info = None
    /\ pending_requests = [i \in Ids |-> 0]
    /\ subscriptions = {}
    /\ now = 0
    /\ wsState = [w \in Transports |-> "unused"]
    /\ outbox = [w \in Transports |-> {}]
    /\ srvSubs = [w \in Transports |-> {}]
    /\ nextSub = 0
    /\ op = [t \in Tasks |-> "none"]
    /\ pc = [t \in Tasks |-> "idle"]
    /\ rid = [t \in Tasks |-> 0]
    /\ tws = [t \in Tasks |-> 0]
    /\ fut = [t \in Tasks |-> "none"]
    /\ resp = [t \in Tasks |-> NoResp]
    /\ use_demo = [t \in Tasks |-> TRUE]
    /\ subscription_id = [t \in Tasks |-> 0]
    /\ lastRet = NoRet
    /\ inbound = NoFrame
    /\ hpc = [w \in Transports |-> "none"]
    /\ fpc = [s \in SubIds |-> "none"]
    /\ cbTick = [s \in SubIds |-> 0]
    /\ deadSubs = {}
    /\ doomed = {}
    /\ unsub = [s \in SubIds |-> "no"]
    /\ cold = {}
    /\ authenticated = None
    /\ run = [opens |-> 0, failures |-> 0]
    /\ nops = 0

\* main() constructs the connection manager and the trader, lines 16-24 of
\* __main__.py
Constructed ==
    /\ Created
    /\ Built
    /\ stake_amount = STAKE_AMOUNT

Init ==
    /\ Constructed
    /\ budget \in Budgets

\* ----------------------------------------------------------------- helpers
Lowest(S) == CHOOSE x \in S : \A y \in S : x <= y

\* A caller starts a public operation, within the budget of the run.  Idle
\* callers are interchangeable: the lowest-numbered one takes the call.
Begins(t) ==
    /\ t \in Callers
    /\ t <= budget.callers
    /\ pc[t] = "idle"
    /\ nops < budget.ops
    /\ \A u \in Callers : u < t => pc[u] # "idle"

\* Transports this run may still open.
Unused == {w \in 1..budget.ws : wsState[w] = "unused"}

\* Requests whose caller is suspended in send_request with no outcome yet.
Outstanding ==
    {t \in Tasks : /\ op[t] = "send_request"
                   /\ \/ pc[t] = "simwait"
                      \/ pc[t] \in {"sending", "waiting"} /\ fut[t] = "pending"}

\* Identifiers something still refers to.
InUse ==
    {rid[t] : t \in {u \in Tasks : pc[u] \in {"sending", "waiting"}}}
        \cup {i \in Ids : pending_requests[i] # 0} \cup ({now} \ {0})

\* str(int(time.time() * 1000)), line 363: the millisecond of the latest
\* stamp if the clock has not moved since, or a later millisecond.  Only
\* equality of identifiers matters, so a later millisecond is named by the
\* lowest identifier nothing refers to any more.
Stamps == ({now} \ {0}) \cup
          (IF Ids \ InUse = {} THEN {} ELSE {Lowest(Ids \ InUse)})

\* The frame kind follows the operation that sends it.
KindOf(o) ==
    CASE o = "subscribe" -> "subscribe"
      [] o = "send_request" -> "send"
      [] o = "ping_handler" -> "ping"
      [] o = "unsubscribe" -> "forget"
      [] o = "callback" -> "send"
      [] OTHER -> "authorize"

\* No operation returns in this step, and no unsolicited frame is read.
Quiet == lastRet' = NoRet /\ inbound' = NoFrame

\* Task t goes on in operation o at label l.
Go(t, o, l) ==
    /\ pc' = [pc EXCEPT ![t] = l]
    /\ op' = [op EXCEPT ![t] = o]
    /\ Quiet

\* Operation o of task t returns v (frm: the task whose request the returned
\* response answers; again: the step before was a return of o too).
Return(t, o, v, frm) ==
    /\ pc' = [pc EXCEPT ![t] = "idle"]
    /\ op' = [op EXCEPT ![t] = "none"]
    /\ lastRet' = [task |-> t, op |-> o, val |-> v, from |-> frm,
                   doomed |-> t \in doomed, cold |-> t \in cold,
                   again |-> lastRet.op = o]
    /\ inbound' = NoFrame

\* disconnect() returns without suspending: lines 433-436, or 438 is false.
DisconnectAtOnce == simulation_mode \/ websocket = None

\* is_connected after a disconnect() that returned at once.
AfterAtOnce == IF simulation_mode THEN FALSE ELSE is_connected

\* A connection was made: the run of failures is over.
Succeeded == run' = [opens |-> 0, failures |-> 0]

\* Operation o returns failure.
Failed(o) ==
    run' = IF o = "reconnect" THEN [run EXCEPT !.failures = @ + 1] ELSE run

\* Operation o got the outcome of websockets.connect().
Opened(o) == IF o = "reconnect" THEN [run EXCEPT !.opens = @ + 1] ELSE run

\* connect() lines 77-91 run by t (inside operation o) under simulation mode
\* m, is_connected being ic: the simulated connection is made on the spot,
\* the live one suspends in websockets.connect.
DoConnect(t, o, m, ic) ==
    IF m
    THEN /\ is_connected' = TRUE
         /\ connection_attempts' = 0
         /\ account_info' = SimSession
         /\ authenticated' = SimSession
         /\ Succeeded
         /\ Return(t, o, "true", 0)
    ELSE /\ is_connected' = ic
         /\ UNCHANGED <<connection_attempts, account_info, run, authenticated>>
         /\ Go(t, o, "opening")

\* What t, running operation o (switch_account to ud), does once the
\* disconnect() it called has returned, is_connected being ic: disconnect()
\* itself and connect() after a failed handshake (lines 121-122, 140-141)
\* return; reconnect() (line 428) and switch_account() (lines 704-712) go on
\* to connect().
AfterDisconnect(t, o, ud, failed, ic) ==
    IF failed \/ o = "disconnect"
    THEN /\ is_connected' = ic
         /\ Return(t, o, IF failed THEN "false" ELSE "None", 0)
         /\ IF failed THEN Failed(o) ELSE UNCHANGED run
         /\ UNCHANGED <<simulation_mode, is_demo, connection_attempts,
                        endpoint, account_info, authenticated>>
    ELSE IF o = "switch_account"
    THEN /\ is_demo' = ud
         /\ endpoint' = IF ud THEN DERIV_DEMO_WSS_ENDPOINT
                        ELSE DERIV_WSS_ENDPOINT
         /\ simulation_mode' =
                (/\ _is_placeholder_token(IF ud THEN DERIV_API_TOKEN_DEMO
                                          ELSE DERIV_API_TOKEN_REAL)
                 /\ ENABLE_SIMULATION)
         /\ DoConnect(t, o, simulation_mode', ic)
    ELSE /\ UNCHANGED <<simulation_mode, is_demo>>
         /\ endpoint' = IF connection_attempts > 1
                        THEN alternate_endpoints[
                                 (connection_attempts % Len(alternate_endpoints)) + 1]
                        ELSE endpoint
         /\ DoConnect(t, o, simulation_mode, ic)

\* Task t, in operation o, calls disconnect() (lines 430-441): in simulation
\* mode, or with no transport, it returns at once and t goes on; otherwise t
\* suspends in websocket.close().
CallDisconnect(t, o, ud, failed) ==
    /\ IF DisconnectAtOnce
       THEN /\ AfterDisconnect(t, o, ud, failed, AfterAtOnce)
            /\ deadSubs' = deadSubs \cup subscriptions
            /\ doomed' = doomed \cup Outstanding
            /\ UNCHANGED unsub
            /\ cold' = cold \ {t}
            /\ tws' = [tws EXCEPT ![t] = 0]
            /\ use_demo' = [use_demo EXCEPT ![t] = TRUE]
            /\ UNCHANGED subscription_id
       ELSE /\ Go(t, o, IF failed THEN "closingFail" ELSE "closing")
            /\ tws' = [tws EXCEPT ![t] = websocket]
            /\ use_demo' = [use_demo EXCEPT ![t] = ud]
            /\ UNCHANGED subscription_id
            /\ UNCHANGED <<simulation_mode, is_demo, is_connected,
                           connection_attempts, endpoint, account_info, hist>>

\* _send_request lines 362-372: stamp the millisecond as req_id and register
\* the future under it (replacing whatever was registered under that key).
Register(t, i, w) ==
    /\ now' = i
    /\ rid' = [rid EXCEPT ![t] = i]
    /\ pending_requests' = [pending_requests EXCEPT ![i] = t]
    /\ fut' = [fut EXCEPT ![t] = "pending"]
    /\ tws' = [tws EXCEPT ![t] = w]
    /\ outbox' = [v \in Transports |-> {f \in outbox[v] : f.rid \in InUse}]

\* The state of transport w once it is closed, cleanly (ok) or not: only a
\* handler that is still iterating it gets to see an abnormal close.
Closed(w, ok) == IF ~ok /\ hpc[w] = "reading" THEN "closedErr" ELSE "closed"

\* The handler of transport w is in its loop, lines 313-336, and not inside
\* a callback it awaits (line 330).
Reading(w) == hpc[w] = "reading" /\ pc[CbTask(w)] = "idle"

\* pending_requests.pop(req_id, None)
Pop(i) == [pending_requests EXCEPT ![i] = 0]

\* ------------------------------------------------------- public operations
\* connect(), lines 77-91
Connect(t) ==
    /\ Begins(t)
    /\ DoConnect(t, "connect", simulation_mode, is_connected)
    /\ cold' = IF ~simulation_mode /\ ~is_connected /\ websocket = None
               THEN cold \cup {t} ELSE cold
    /\ nops' = nops + 1
    /\ UNCHANGED <<budget, trader>>
    /\ UNCHANGED <<simulation_mode, is_demo, websocket, endpoint, regs, now,
                   wire, rid, tws, fut, resp, use_demo, subscription_id, bg,
                   deadSubs, doomed, unsub>>

\* websockets.connect() returns or raises, lines 96-115.  On success the
\* _message_handler and _ping_handler tasks are created (the handler starts
\* to iterate the new transport, the ping loop ends at once unless
\* is_connected is already true, line 1060) and the authorize request is
\* registered.
ConnectOpen(t, opened, i) ==
    /\ pc[t] = "opening"
    /\ IF ~opened
       THEN /\ Return(t, op[t], "false", 0)
            /\ run' = [Opened(op[t]) EXCEPT
                          !.failures = IF op[t] = "reconnect" THEN @ + 1 ELSE @]
            /\ cold' = cold \ {t}
            /\ UNCHANGED <<conn, regs, now, wire, rid, tws, fut, bg, deadSubs,
                           doomed, unsub, authenticated>>
       ELSE /\ Unused # {}
            /\ LET w == Lowest(Unused)
                   ping == IF is_connected THEN "psleep" ELSE "idle"
                   pop == IF is_connected THEN "ping_handler" ELSE "none"
               IN
               /\ websocket' = w
               /\ wsState' = [wsState EXCEPT ![w] = "open"]
               /\ hpc' = [hpc EXCEPT ![w] = "reading"]
               /\ UNCHANGED <<simulation_mode, is_demo, endpoint, subscriptions,
                              srvSubs, nextSub, fpc, cbTick>>
               /\ IF simulation_mode
                  THEN \* _simulated_response returns self.account_info
                       \* (line 191); None makes line 117 raise, line 140
                       \* disconnects (simulated) and connect() fails.
                       /\ pc' = [pc EXCEPT ![t] = "idle",
                                           ![PingTask(w)] = ping]
                       /\ op' = [op EXCEPT ![t] = "none",
                                           ![PingTask(w)] = pop]
                       /\ lastRet' = [task |-> t, op |-> op[t],
                              val |-> IF account_info = None THEN "false"
                                      ELSE "true",
                              from |-> 0, doomed |-> FALSE,
                              cold |-> t \in cold,
                              again |-> lastRet.op = op[t]]
                       /\ inbound' = NoFrame
                       /\ is_connected' = (account_info # None)
                       /\ connection_attempts' =
                              IF account_info = None THEN connection_attempts
                              ELSE 0
                       /\ deadSubs' = IF account_info = None
                                      THEN deadSubs \cup subscriptions
                                      ELSE deadSubs
                       /\ doomed' = IF account_info = None
                                    THEN doomed \cup Outstanding ELSE doomed
                       /\ UNCHANGED unsub
                       /\ cold' = cold \ {t}
                       /\ run' = IF account_info # None
                                 THEN [opens |-> 0, failures |-> 0]
                                 ELSE [Opened(op[t]) EXCEPT
                                          !.failures = IF op[t] = "reconnect"
                                                       THEN @ + 1 ELSE @]
                       /\ authenticated' = IF account_info = None
                                           THEN authenticated
                                           ELSE account_info
                       /\ UNCHANGED <<account_info, pending_requests, now,
                                      outbox, rid, tws, fut>>
                  ELSE /\ pc' = [pc EXCEPT ![t] = "sending",
                                           ![PingTask(w)] = ping]
                       /\ op' = [op EXCEPT ![PingTask(w)] = pop]
                       /\ i \in Stamps
                       /\ Register(t, i, w)
                       /\ Quiet
                       /\ run' = Opened(op[t])
                       /\ UNCHANGED <<is_connected, connection_attempts,
                                      account_info, deadSubs, doomed, unsub,
                                      cold, authenticated>>
    /\ UNCHANGED <<resp, use_demo, subscription_id, nops, budget, trader>>

\* disconnect(), lines 430-441
Disconnect(t) ==
    /\ Begins(t)
    /\ CallDisconnect(t, "disconnect", TRUE, FALSE)
    /\ nops' = nops + 1
    /\ UNCHANGED <<budget, trader>>
    /\ UNCHANGED <<websocket, regs, now, wire, rid, fut, resp, bg>>

\* disconnect() whose finally block does not forget the transport (line 446).
CloseDone_KeepsTransport(t, ok) ==
    /\ pc[t] \in {"closing", "closingFail"}
    /\ ok \/ wsState[tws[t]] = "open"
    /\ LET w == tws[t] IN
       /\ wsState' = IF wsState[w] = "open"
                     THEN [wsState EXCEPT ![w] = Closed(w, ok)]
                     ELSE wsState
       /\ outbox' = [outbox EXCEPT ![w] = {}]
       /\ srvSubs' = [srvSubs EXCEPT ![w] = {}]
       /\ hpc' = IF ok /\ hpc[w] = "reading" /\ wsState[w] = "open"
                 THEN [hpc EXCEPT ![w] = "none"]
                 ELSE hpc
    /\ websocket' = websocket
    /\ fut' = [u \in Tasks |->
                 IF fut[u] = "pending" /\ \E i \in Ids : pending_requests[i] = u
                 THEN "exception" ELSE fut[u]]
    /\ pending_requests' = [i \in Ids |-> 0]
    /\ subscriptions' = {}
    /\ deadSubs' = deadSubs \cup subscriptions
    /\ doomed' = doomed \cup Outstanding
    /\ UNCHANGED unsub
    /\ cold' = cold \ {t}
    /\ AfterDisconnect(t, op[t], use_demo[t], pc[t] = "closingFail", FALSE)
    /\ tws' = [tws EXCEPT ![t] = 0]
    /\ use_demo' = [use_demo EXCEPT ![t] = TRUE]
    /\ UNCHANGED subscription_id
    /\ UNCHANGED <<now, nextSub, rid, resp, fpc, cbTick, nops, budget, trader>>

\* websocket.close() has returned: the finally block of disconnect(), lines
\* 444-453, then whatever the caller of disconnect() does next.  A close that
\* completes its handshake ends the iterator of the transport cleanly (ok);
\* one that does not makes it raise ConnectionClosedError.
CloseDone(t, ok) ==
    /\ pc[t] \in {"closing", "closingFail"}
    /\ ok \/ wsState[tws[t]] = "open"
    /\ LET w == tws[t] IN
       /\ wsState' = IF wsState[w] = "open"
                     THEN [wsState EXCEPT ![w] = Closed(w, ok)]
                     ELSE wsState
       /\ outbox' = [outbox EXCEPT ![w] = {}]
       /\ srvSubs' = [srvSubs EXCEPT ![w] = {}]
       /\ hpc' = IF ok /\ hpc[w] = "reading" /\ wsState[w] = "open"
                 THEN [hpc EXCEPT ![w] = "none"]
                 ELSE hpc
    /\ websocket' = None
    /\ fut' = [u \in Tasks |->
                 IF fut[u] = "pending" /\ \E i \in Ids : pending_requests[i] = u
                 THEN "exception" ELSE fut[u]]
    /\ pending_requests' = [i \in Ids |-> 0]
    /\ subscriptions' = {}
    /\ deadSubs' = deadSubs \cup subscriptions
    /\ doomed' = doomed \cup Outstanding
    /\ UNCHANGED unsub
    /\ cold' = cold \ {t}
    /\ AfterDisconnect(t, op[t], use_demo[t], pc[t] = "closingFail", FALSE)
    /\ tws' = [tws EXCEPT ![t] = 0]
    /\ use_demo' = [use_demo EXCEPT ![t] = TRUE]
    /\ UNCHANGED subscription_id
    /\ UNCHANGED <<now, nextSub, rid, resp, fpc, cbTick, nops, budget, trader>>

\* reconnect(), lines 395-412, called by a caller or run by the task a
\* _ping_handler created (lines 1073, 1081)
Reconnect(t) ==
    /\ Begins(t) \/ (t \in RcTasks /\ pc[t] = "created")
    /\ IF simulation_mode
       THEN /\ is_connected' = TRUE
            /\ connection_attempts' = 0
            /\ Succeeded
            /\ Return(t, "reconnect", "true", 0)
       ELSE /\ connection_attempts' = connection_attempts + 1
            /\ UNCHANGED is_connected
            /\ IF connection_attempts + 1 >= MAX_RECONNECT_ATTEMPTS
               THEN Return(t, "reconnect", "false", 0) /\ Failed("reconnect")
               ELSE Go(t, "reconnect", "rsleep") /\ UNCHANGED run
    /\ nops' = IF t \in Callers THEN nops + 1 ELSE nops
    /\ UNCHANGED <<budget, trader>>
    /\ UNCHANGED <<simulation_mode, is_demo, websocket, endpoint,
                   account_info, regs, now, wire, rid, tws, fut, resp,
                   use_demo, subscription_id, bg, deadSubs, doomed, unsub,
                   cold, authenticated>>

\* reconnect() after its sleep, lines 414-428
ReconnectWake(t) ==
    /\ pc[t] = "rsleep"
    /\ CallDisconnect(t, "reconnect", TRUE, FALSE)
    /\ UNCHANGED <<websocket, regs, now, wire, rid, fut, resp, bg, nops, budget, trader>>

\* switch_account() without the test of lines 694-696
SwitchAccount_Always(t, ud) ==
    /\ Begins(t)
    /\ CallDisconnect(t, "switch_account", ud, FALSE)
    /\ nops' = nops + 1
    /\ UNCHANGED <<budget, trader>>
    /\ UNCHANGED <<websocket, regs, now, wire, rid, fut, resp, bg>>

\* switch_account(use_demo), lines 693-712
SwitchAccount(t, ud) ==
    /\ Begins(t)
    /\ IF is_demo = ud
       THEN /\ Return(t, "switch_account", "true", 0)
            /\ UNCHANGED <<simulation_mode, is_demo, is_connected,
                           connection_attempts, endpoint, account_info, tws,
                           use_demo, subscription_id, hist>>
       ELSE CallDisconnect(t, "switch_account", ud, FALSE)
    /\ nops' = nops + 1
    /\ UNCHANGED <<budget, trader>>
    /\ UNCHANGED <<websocket, regs, now, wire, rid, fut, resp, bg>>

\* What t does with the outcome r (and response rsp) of its _send_request:
\* send_request() lines 540-541, subscribe() lines 589-606, connect() lines
\* 117-127, _ping_handler() lines 1070-1076.
AfterRequest(t, r, rsp) ==
    LET good == r = "response" /\ rsp.ok
        forgot == good /\ rsp.kind = "forget"
        pong == good /\ rsp.kind = "ping"
    IN
    CASE op[t] \in {"send_request", "callback"} ->
            \* (a callback that asked: it returns, line 330, and the
            \* handler goes on with its loop)
            /\ Return(t, op[t], r, rsp.from)
            /\ tws' = [tws EXCEPT ![t] = 0]
            /\ doomed' = doomed \ {t}
            /\ UNCHANGED <<conn, subscriptions, use_demo, subscription_id,
                           deadSubs, unsub, run, cold, authenticated>>
      [] op[t] = "subscribe" ->
            /\ Return(t, op[t], IF good /\ rsp.sub # 0 THEN "subscribed"
                                ELSE "None", rsp.from)
            /\ subscriptions' = IF good /\ rsp.sub # 0
                                THEN subscriptions \cup {rsp.sub}
                                ELSE subscriptions
            /\ tws' = [tws EXCEPT ![t] = 0]
            /\ UNCHANGED <<conn, use_demo, subscription_id, hist>>
      [] op[t] = "unsubscribe" ->
            \* lines 640-649: response.get('forget') == 1, or not
            /\ Return(t, op[t], IF forgot THEN "true" ELSE "false", rsp.from)
            /\ subscriptions' = IF forgot
                                THEN subscriptions \ {subscription_id[t]}
                                ELSE subscriptions
            /\ unsub' = IF forgot
                        THEN [unsub EXCEPT ![subscription_id[t]] = "done"]
                        ELSE unsub
            /\ subscription_id' = [subscription_id EXCEPT ![t] = 0]
            /\ tws' = [tws EXCEPT ![t] = 0]
            /\ UNCHANGED <<conn, use_demo, deadSubs, doomed, cold, run,
                           authenticated>>
      [] op[t] = "ping_handler" ->
            /\ IF pong
               THEN /\ Go(t, op[t], "psleep")
                    /\ UNCHANGED is_connected
               ELSE /\ is_connected' = FALSE
                    /\ pc' = [pc EXCEPT ![t] = "idle",
                                        ![t + MaxTransports] = "created"]
                    /\ op' = [op EXCEPT ![t] = "none",
                                        ![t + MaxTransports] = "reconnect"]
                    /\ Quiet
            /\ tws' = [tws EXCEPT ![t] = 0]
            /\ UNCHANGED <<simulation_mode, is_demo, websocket,
                           connection_attempts, endpoint, account_info,
                           subscriptions, use_demo, subscription_id, hist>>
      [] OTHER ->
            /\ IF good
               THEN /\ account_info' = tws[t]
                    /\ is_connected' = TRUE
                    /\ connection_attempts' = 0
                    /\ Succeeded
                    /\ Return(t, op[t], "true", rsp.from)
                    /\ tws' = [tws EXCEPT ![t] = 0]
                    /\ cold' = cold \ {t}
                    /\ UNCHANGED <<simulation_mode, is_demo, endpoint,
                                   use_demo, subscription_id, deadSubs,
                                   doomed, unsub, authenticated>>
               ELSE CallDisconnect(t, op[t], use_demo[t], TRUE)
            /\ UNCHANGED <<websocket, subscriptions>>

\* send_request(), lines 528-540
SendRequest(t, i) ==
    /\ Begins(t)
    /\ IF ~is_connected \/ (~simulation_mode /\ websocket = None)
       THEN /\ Return(t, "send_request", "None", 0)
            /\ UNCHANGED <<rid, pending_requests, fut, tws, now, outbox>>
       ELSE IF simulation_mode
       THEN /\ Go(t, "send_request", "simwait")
            /\ UNCHANGED <<rid, pending_requests, fut, tws, now, outbox>>
       ELSE /\ Go(t, "send_request", "sending")
            /\ i \in Stamps
            /\ Register(t, i, websocket)
    /\ nops' = nops + 1
    /\ UNCHANGED <<budget, trader>>
    /\ UNCHANGED <<conn, subscriptions, wsState, srvSubs, nextSub, resp,
                   use_demo, subscription_id, bg, hist>>

\* subscribe(), lines 562-587
Subscribe(t, i) ==
    /\ Begins(t)
    /\ IF ~is_connected \/ (~simulation_mode /\ websocket = None)
       THEN /\ Return(t, "subscribe", "None", 0)
            /\ UNCHANGED <<rid, regs, fut, tws, nextSub, fpc, now, outbox>>
       ELSE IF simulation_mode
       THEN /\ nextSub < MaxSubs
            /\ nextSub' = nextSub + 1
            /\ subscriptions' = subscriptions \cup {nextSub + 1}
            /\ fpc' = [fpc EXCEPT ![nextSub + 1] = "check"]
            /\ Return(t, "subscribe", "subscribed", t)
            /\ UNCHANGED <<rid, pending_requests, fut, tws, now, outbox>>
       ELSE /\ Go(t, "subscribe", "sending")
            /\ i \in Stamps
            /\ Register(t, i, websocket)
            /\ UNCHANGED <<subscriptions, nextSub, fpc>>
    /\ nops' = nops + 1
    /\ UNCHANGED <<budget, trader>>
    /\ UNCHANGED <<conn, wsState, srvSubs, resp, use_demo, subscription_id, hpc, cbTick, hist>>

\* unsubscribe(subscription_id), lines 621-638
Unsubscribe(t, s, i) ==
    /\ Begins(t)
    /\ IF simulation_mode
       THEN /\ Return(t, "unsubscribe",
                      IF s \in subscriptions THEN "true" ELSE "false", 0)
            /\ subscriptions' = subscriptions \ {s}
            /\ unsub' = IF s \in subscriptions
                        THEN [unsub EXCEPT ![s] = "done"] ELSE unsub
            /\ UNCHANGED <<rid, pending_requests, fut, tws, now, outbox,
                           subscription_id>>
       ELSE IF ~is_connected \/ websocket = None
       THEN /\ Return(t, "unsubscribe", "false", 0)
            /\ UNCHANGED <<rid, regs, fut, tws, now, outbox, subscription_id,
                           unsub>>
       ELSE /\ Go(t, "unsubscribe", "sending")
            /\ subscription_id' = [subscription_id EXCEPT ![t] = s]
            /\ unsub' = IF s \in subscriptions /\ unsub[s] = "no"
                        THEN [unsub EXCEPT ![s] = "called"] ELSE unsub
            /\ i \in Stamps
            /\ Register(t, i, websocket)
            /\ UNCHANGED subscriptions
    /\ nops' = nops + 1
    /\ UNCHANGED <<budget, trader>>
    /\ UNCHANGED <<conn, wsState, srvSubs, nextSub, resp, use_demo, bg,
                   deadSubs, doomed, cold, run, authenticated>>

\* ------------------------------------------------------------ _send_request
\* await self.websocket.send(...), line 375: the frame leaves, or the
\* transport is closed and the exception handler of lines 383-386 runs.
SendFrame(t) ==
    /\ pc[t] = "sending"
    /\ IF wsState[tws[t]] = "open"
       THEN /\ outbox' = [outbox EXCEPT ![tws[t]] = @ \cup
                  {[rid |-> rid[t], from |-> t, kind |-> KindOf(op[t]),
                    sub |-> subscription_id[t]]}]
            /\ Go(t, op[t], "waiting")
            /\ UNCHANGED <<conn, regs, rid, tws, fut, use_demo, subscription_id, hist>>
       ELSE /\ pending_requests' = Pop(rid[t])
            /\ rid' = [rid EXCEPT ![t] = 0]
            /\ fut' = [fut EXCEPT ![t] = "none"]
            /\ AfterRequest(t, "senderr", NoResp)
            /\ UNCHANGED outbox
    /\ UNCHANGED <<now, wsState, srvSubs, nextSub, resp, bg, nops, budget, trader>>

\* A wait with no bound: the future is awaited without wait_for.
TimeoutFire_Unbounded(t) ==
    /\ pc[t] = "waiting"
    /\ FALSE
    /\ UNCHANGED vars

\* The bounded wait of line 377 elapses (time has moved past the request's
\* millisecond): asyncio.wait_for cancels the future; the caller itself runs
\* again only at its next step.
TimeoutFire(t) ==
    /\ pc[t] = "waiting"
    /\ fut[t] = "pending"
    /\ fut' = [fut EXCEPT ![t] = "cancelled"]
    /\ now' = IF now = rid[t] THEN 0 ELSE now
    /\ Quiet
    /\ UNCHANGED <<conn, regs, wire, op, pc, rid, tws, resp, use_demo, subscription_id,
                   bg, hist, nops, budget, trader>>

\* The caller wakes from wait_for, lines 377-386: with the response, or with
\* TimeoutError, or with the exception disconnect() put in the future.
Resume(t) ==
    /\ pc[t] = "waiting"
    /\ fut[t] \in {"result", "cancelled", "exception"}
    /\ pending_requests' = IF fut[t] = "result" THEN pending_requests
                           ELSE Pop(rid[t])
    /\ rid' = [rid EXCEPT ![t] = 0]
    /\ fut' = [fut EXCEPT ![t] = "none"]
    /\ resp' = [resp EXCEPT ![t] = NoResp]
    /\ AfterRequest(t, CASE fut[t] = "result" -> "response"
                         [] fut[t] = "cancelled" -> "timeout"
                         [] OTHER -> "connlost", resp[t])
    /\ UNCHANGED <<now, wire, bg, nops, budget, trader>>

\* _simulated_response, lines 172-305: after its sleep it returns a response
\* echoing the request.
SimulatedResponse(t) ==
    /\ pc[t] = "simwait"
    /\ AfterRequest(t, "response", [from |-> t, kind |-> KindOf(op[t]),
                                    ok |-> TRUE, sub |-> 0])
    /\ UNCHANGED <<pending_requests, now, wire, rid, fut, resp, bg, nops, budget, trader>>

\* --------------------------------------------------------- _message_handler
\* The response being handed to task u is the one its connect() waits for
\* at line 109, and carries no error (ok): a successful authentication.
Authenticates(u, ok) ==
    /\ u # 0
    /\ fut[u] = "pending"
    /\ op[u] \in {"connect", "reconnect", "switch_account"}
    /\ ok

\* The remote answers frame f (ok: without an error payload; a confirmed
\* subscribe request gets a fresh subscription id, which the remote starts
\* to feed) and the handler of transport w routes the answer, lines 315-335.
\* A future that is already cancelled makes set_result raise
\* InvalidStateError, which only line 341 catches: the task ends.
HandlerResponse(w, f, ok) ==
    /\ Reading(w)
    /\ wsState[w] = "open"
    /\ f \in outbox[w]
    /\ f.kind = "subscribe" /\ ok => nextSub < MaxSubs
    /\ f.kind = "forget" /\ ok => f.sub \in srvSubs[w]
    /\ LET s == IF f.kind = "subscribe" /\ ok THEN nextSub + 1 ELSE 0
           target == pending_requests[f.rid]
       IN
       /\ outbox' = [outbox EXCEPT ![w] = @ \ {f}]
       /\ nextSub' = IF s # 0 THEN s ELSE nextSub
       /\ srvSubs' = IF s # 0 THEN [srvSubs EXCEPT ![w] = @ \cup {s}]
                     ELSE IF f.kind = "forget" /\ ok
                     THEN [srvSubs EXCEPT ![w] = @ \ {f.sub}]
                     ELSE srvSubs
       /\ IF target # 0
          THEN /\ pending_requests' = Pop(f.rid)
               /\ IF fut[target] = "pending"
                  THEN /\ fut' = [fut EXCEPT ![target] = "result"]
                       /\ resp' = [resp EXCEPT ![target] =
                              [from |-> f.from, kind |-> f.kind, ok |-> ok,
                               sub |-> s]]
                       /\ UNCHANGED hpc
                  ELSE /\ hpc' = [hpc EXCEPT ![w] = "crashed"]
                       /\ UNCHANGED <<fut, resp>>
          ELSE UNCHANGED <<pending_requests, fut, resp, hpc>>
       /\ authenticated' = IF Authenticates(target, ok)
                            THEN tws[target] ELSE authenticated
    /\ Quiet
    /\ UNCHANGED <<conn, subscriptions, now, wsState, op, pc, rid, tws,
                   use_demo, subscription_id, fpc, cbTick, deadSubs, doomed,
                   unsub, cold, run, nops, budget, trader>>

\* The handler without the try of lines 330-332 around the callback.
HandlerFrame_Propagates(w, fr) ==
    /\ Reading(w)
    /\ wsState[w] = "open"
    /\ fr \in Frames
    /\ fr.w = w
    /\ LET isObject == fr.shape = "object"
           target == IF isObject /\ fr.req_id # 0
                     THEN pending_requests[fr.req_id] ELSE 0
           pushed == isObject /\ target = 0 /\ fr.push
       IN
       /\ pending_requests' = IF target # 0 THEN Pop(fr.req_id)
                              ELSE pending_requests
       /\ fut' = IF target # 0 /\ fut[target] = "pending"
                 THEN [fut EXCEPT ![target] = "result"] ELSE fut
       /\ resp' = IF target # 0 /\ fut[target] = "pending"
                  THEN [resp EXCEPT ![target] =
                           [from |-> 0, kind |-> "other", ok |-> TRUE,
                            sub |-> 0]]
                  ELSE resp
       /\ hpc' = IF \/ fr.shape = "value"
                    \/ target # 0 /\ fut[target] # "pending"
                    \/ pushed /\ fr.sub = BadSub
                    \/ pushed /\ fr.sub \in subscriptions /\ fr.raises
                 THEN [hpc EXCEPT ![w] = "crashed"] ELSE hpc
       /\ cbTick' = IF pushed /\ fr.sub \in subscriptions
                    THEN [cbTick EXCEPT ![fr.sub] = IF @ = 1 THEN 2 ELSE 1]
                    ELSE cbTick
    /\ inbound' = fr
    /\ lastRet' = NoRet
    /\ UNCHANGED <<conn, subscriptions, now, wire, op, pc, rid, tws, use_demo,
                   subscription_id, fpc, hist, nops, budget, trader>>

\* The remote sends frame fr unasked and the handler of transport w routes
\* it, lines 314-336: json.loads raises JSONDecodeError (caught, line 336);
\* or response.get raises AttributeError on a value that is no object, and so
\* does .get('id') on a subscription field that is no object (both caught
\* only at line 341: the task ends); or the frame completes the request
\* pending under its req_id; or it is a push for a registered subscription,
\* whose callback is called, an exception of the callback being caught at
\* line 331; or nothing is done with it.
HandlerFrame(w, fr) ==
    /\ Reading(w)
    /\ wsState[w] = "open"
    /\ fr \in Frames
    /\ fr.w = w
    /\ LET isObject == fr.shape = "object"
           target == IF isObject /\ fr.req_id # 0
                     THEN pending_requests[fr.req_id] ELSE 0
           pushed == isObject /\ target = 0 /\ fr.push
       IN
       /\ pending_requests' = IF target # 0 THEN Pop(fr.req_id)
                              ELSE pending_requests
       /\ fut' = IF target # 0 /\ fut[target] = "pending"
                 THEN [fut EXCEPT ![target] = "result"] ELSE fut
       /\ resp' = IF target # 0 /\ fut[target] = "pending"
                  THEN [resp EXCEPT ![target] =
                           [from |-> 0, kind |-> "other", ok |-> TRUE,
                            sub |-> 0]]
                  ELSE resp
       /\ hpc' = IF \/ fr.shape = "value"
                    \/ target # 0 /\ fut[target] # "pending"
                    \/ pushed /\ fr.sub = BadSub
                 THEN [hpc EXCEPT ![w] = "crashed"] ELSE hpc
       /\ cbTick' = IF pushed /\ fr.sub \in subscriptions
                    THEN [cbTick EXCEPT ![fr.sub] = IF @ = 1 THEN 2 ELSE 1]
                    ELSE cbTick
    /\ inbound' = fr
    /\ lastRet' = NoRet
    /\ UNCHANGED <<conn, subscriptions, now, wire, op, pc, rid, tws, use_demo,
                   subscription_id, fpc, hist, nops, budget, trader>>

\* The remote pushes a frame of subscription s and the handler calls the
\* callback registered under s, lines 323-332.
HandlerPush(w, s) ==
    /\ Reading(w)
    /\ wsState[w] = "open"
    /\ s \in srvSubs[w]
    /\ s \in subscriptions
    /\ cbTick' = [cbTick EXCEPT ![s] = IF @ = 1 THEN 2 ELSE 1]
    /\ Quiet
    /\ UNCHANGED <<conn, regs, now, wire, task, hpc, fpc, hist, nops, budget, trader>>

\* The remote pushes a frame of subscription s and the callback registered
\* under s, awaited by the handler at line 330, calls send_request() and
\* awaits it, as DerivTrader._handle_tick does through _execute_trade
\* (trader.py lines 102-111): send_request lines 528-540, _send_request
\* lines 362-372.  A callback whose send_request returns None at once ends
\* within the step.
HandlerCallback(w, s, i) ==
    /\ Reading(w)
    /\ wsState[w] = "open"
    /\ s \in srvSubs[w]
    /\ s \in subscriptions
    /\ cbTick' = [cbTick EXCEPT ![s] = IF @ = 1 THEN 2 ELSE 1]
    /\ IF ~is_connected \/ websocket = None
       THEN /\ Return(CbTask(w), "callback", "None", 0)
            /\ UNCHANGED <<rid, pending_requests, fut, tws, now, outbox>>
       ELSE /\ Go(CbTask(w), "callback", "sending")
            /\ i \in Stamps
            /\ Register(CbTask(w), i, websocket)
    /\ UNCHANGED <<conn, subscriptions, wsState, srvSubs, nextSub, resp,
                   use_demo, subscription_id, hpc, fpc, hist, nops, budget,
                   trader>>

\* The iteration of line 313 raises ConnectionClosedError after an abnormal
\* close, lines 338-340.  (After a clean close it just ends and the task
\* with it, changing nothing: that is part of the closing step.)
HandlerEnd(w) ==
    /\ Reading(w)
    /\ wsState[w] = "closedErr"
    /\ hpc' = [hpc EXCEPT ![w] = "none"]
    /\ wsState' = [wsState EXCEPT ![w] = "closed"]
    /\ is_connected' = FALSE
    /\ Quiet
    /\ UNCHANGED <<simulation_mode, is_demo, websocket, connection_attempts,
                   endpoint, account_info, regs, now, outbox, srvSubs, nextSub, task,
                   fpc, cbTick, hist, nops, budget, trader>>

\* ------------------------------------------------------------ _ping_handler
\* The sleep of line 1063 is over, lines 1065-1074: leave the loop, or send
\* the probe; with no transport _send_request returns an error at once
\* (lines 358-360), which is a bad probe.
PingWake(t, i) ==
    /\ pc[t] = "psleep"
    /\ IF ~is_connected
       THEN /\ Go(t, "none", "idle")
            /\ UNCHANGED <<is_connected, rid, pending_requests, fut, tws, now,
                           outbox>>
       ELSE IF simulation_mode
       THEN /\ Go(t, op[t], "simwait")
            /\ UNCHANGED <<is_connected, rid, pending_requests, fut, tws, now,
                           outbox>>
       ELSE IF websocket = None
       THEN /\ is_connected' = FALSE
            /\ pc' = [pc EXCEPT ![t] = "idle",
                                ![t + MaxTransports] = "created"]
            /\ op' = [op EXCEPT ![t] = "none",
                                ![t + MaxTransports] = "reconnect"]
            /\ Quiet
            /\ UNCHANGED <<rid, pending_requests, fut, tws, now, outbox>>
       ELSE /\ Go(t, op[t], "sending")
            /\ i \in Stamps
            /\ Register(t, i, websocket)
            /\ UNCHANGED is_connected
    /\ UNCHANGED <<simulation_mode, is_demo, websocket, connection_attempts,
                   endpoint, account_info, subscriptions, wsState, srvSubs, nextSub,
                   resp, use_demo, subscription_id, bg, hist, nops, budget, trader>>

\* --------------------------------------------------- _simulate_subscription
\* The loop test of line 658 (first run, or after the sleep of lines
\* 669-672); when it fails the finally block of lines 678-681 runs.
FeedCheck(s) ==
    /\ fpc[s] = "check"
    /\ IF is_connected /\ s \in subscriptions
       THEN /\ fpc' = [fpc EXCEPT ![s] = "gen"]
            /\ UNCHANGED subscriptions
       ELSE /\ fpc' = [fpc EXCEPT ![s] = "done"]
            /\ subscriptions' = subscriptions \ {s}
    /\ Quiet
    /\ UNCHANGED <<conn, pending_requests, now, wire, task, hpc, cbTick, hist,
                   nops, budget, trader>>

\* _simulated_response has returned, lines 660-666: the callback is called
\* with the update.  It returns, and the feed sleeps (lines 669-672) before
\* its next test; or it raises: the exception leaves the while loop, is
\* logged at lines 676-677, and the finally block of lines 678-681 deletes
\* the subscription as the task ends.
FeedDeliver(s, raises) ==
    /\ fpc[s] = "gen"
    /\ cbTick' = [cbTick EXCEPT ![s] = IF @ = 1 THEN 2 ELSE 1]
    /\ IF raises
       THEN /\ fpc' = [fpc EXCEPT ![s] = "done"]
            /\ subscriptions' = subscriptions \ {s}
       ELSE /\ fpc' = [fpc EXCEPT ![s] = "check"]
            /\ UNCHANGED subscriptions
    /\ lastRet' = NoRet
    /\ inbound' = [NoFrame EXCEPT !.shape = "object", !.push = TRUE,
                                  !.sub = s, !.raises = raises]
    /\ UNCHANGED <<conn, pending_requests, now, wire, task, hpc, hist, nops,
                   budget, trader>>

\* -------------------------------------------------------------- environment
\* The remote side (or the network) closes transport w, cleanly or not.
RemoteClose(w, ok) ==
    /\ wsState[w] = "open"
    /\ wsState' = [wsState EXCEPT ![w] = Closed(w, ok)]
    /\ outbox' = [outbox EXCEPT ![w] = {}]
    /\ srvSubs' = [srvSubs EXCEPT ![w] = {}]
    /\ hpc' = IF ok /\ hpc[w] = "reading" THEN [hpc EXCEPT ![w] = "none"]
              ELSE hpc
    /\ Quiet
    /\ UNCHANGED <<conn, regs, now, nextSub, task, fpc, cbTick, hist, nops, budget, trader>>

Next ==
    \/ \E t \in Callers : Connect(t)
    \/ \E t \in Tasks, opened \in BOOLEAN, i \in Ids \cup {0} :
           ConnectOpen(t, opened, i)
    \/ \E t \in Callers : Disconnect(t)
    \/ \E t \in Tasks, ok \in BOOLEAN : CloseDone(t, ok)
    \/ \E t \in Tasks : Reconnect(t)
    \/ \E t \in Tasks : ReconnectWake(t)
    \/ \E t \in Callers, ud \in BOOLEAN : SwitchAccount(t, ud)
    \/ \E t \in Callers, i \in Ids \cup {0} : SendRequest(t, i)
    \/ \E t \in Callers, i \in Ids \cup {0} : Subscribe(t, i)
    \/ \E t \in Callers, s \in SubIds, i \in Ids \cup {0} : Unsubscribe(t, s, i)
    \/ \E t \in Tasks : SendFrame(t)
    \/ \E t \in Tasks : TimeoutFire(t)
    \/ \E t \in Tasks : Resume(t)
    \/ \E t \in Tasks : SimulatedResponse(t)
    \/ \E w \in Transports, ok \in BOOLEAN :
           \E f \in outbox[w] : HandlerResponse(w, f, ok)
    \/ \E w \in Transports, s \in SubIds : HandlerPush(w, s)
    \/ \E w \in Transports : HandlerEnd(w)
    \/ \E t \in PingTasks, i \in Ids \cup {0} : PingWake(t, i)
    \/ \E s \in SubIds : FeedCheck(s)
    \/ \E s \in SubIds, raises \in BOOLEAN : FeedDeliver(s, raises)
    \/ \E w \in Transports, ok \in BOOLEAN : RemoteClose(w, ok)

Spec == Init /\ [][Next]_vars

FairInit ==
    /\ Constructed
    /\ budget = [ops |-> FairOps, ws |-> 1, callers |-> NumCallers - 1]

\* The event loop runs every task that is ready, and its timers fire: a
\* frame being sent leaves or fails, a bounded wait that nothing else ends
\* times out, a caller whose future is done resumes, the sleep of
\* _simulated_response ends.
Fairness ==
    \A t \in Tasks : /\ WF_vars(SendFrame(t))
                     /\ WF_vars(TimeoutFire(t))
                     /\ WF_vars(Resume(t))
                     /\ WF_vars(SimulatedResponse(t))

FairSpec == FairInit /\ [][Next]_vars /\ Fairness

TypeOK ==
    /\ simulation_mode \in BOOLEAN
    /\ is_connected \in BOOLEAN
    /\ websocket \in {None} \cup Transports
    /\ pending_requests \in [Ids -> {0} \cup Tasks]
    /\ subscriptions \subseteq SubIds
    /\ now \in Ids \cup {0}
    /\ \A t \in Tasks : pc[t] \in {"idle", "created", "opening", "sending",
           "waiting", "simwait", "closing", "closingFail", "rsleep",
           "psleep"}
    /\ \A t \in Tasks : fut[t] \in {"none", "pending", "result", "cancelled",
                                    "exception"}
    /\ subscription_id \in [Tasks -> {0} \cup SubIds]
    /\ unsub \in [SubIds -> {"no", "called", "done"}]
    /\ cold \subseteq Callers
    /\ authenticated \in {None, SimSession} \cup Transports
    /\ run.opens \in 0..RetryOps /\ run.failures \in 0..RetryOps
    /\ connection_attempts \in 0..RetryOps

\* The dispatch loop under every frame a remote can send: the operations that
\* register requests and subscriptions on one transport, and the handler.
DispatchInit ==
    /\ Constructed
    /\ budget = [ops |-> DispatchOps, ws |-> 1, callers |-> NumCallers - 1]

DispatchNext ==
    \/ \E t \in Callers : Connect(t)
    \/ \E t \in Tasks, opened \in BOOLEAN, i \in Ids \cup {0} :
           ConnectOpen(t, opened, i)
    \/ \E t \in Callers, i \in Ids \cup {0} : SendRequest(t, i)
    \/ \E t \in Callers, i \in Ids \cup {0} : Subscribe(t, i)
    \/ \E t \in Tasks : SendFrame(t)
    \/ \E t \in Tasks : TimeoutFire(t)
    \/ \E t \in Tasks : Resume(t)
    \/ \E w \in Transports, ok \in BOOLEAN :
           \E f \in outbox[w] : HandlerResponse(w, f, ok)
    \/ \E w \in Transports, s \in SubIds : HandlerPush(w, s)
    \/ \E w \in Transports, fr \in Frames : HandlerFrame(w, fr)
    \/ \E w \in Transports : HandlerEnd(w)
    \/ \E w \in Transports, ok \in BOOLEAN : RemoteClose(w, ok)

DispatchSpec == DispatchInit /\ [][DispatchNext]_vars

\* Callbacks that make requests of their own: the operations that register
\* requests and subscriptions on one transport, the handler, and the
\* callbacks it awaits.
CallbackInit ==
    /\ Constructed
    /\ budget = [ops |-> CallbackOps, ws |-> 1, callers |-> NumCallers - 1]

CallbackNext ==
    \/ \E t \in Callers : Connect(t)
    \/ \E t \in Tasks, opened \in BOOLEAN, i \in Ids \cup {0} :
           ConnectOpen(t, opened, i)
    \/ \E t \in Callers, i \in Ids \cup {0} : SendRequest(t, i)
    \/ \E t \in Callers, i \in Ids \cup {0} : Subscribe(t, i)
    \/ \E t \in Tasks : SendFrame(t)
    \/ \E t \in Tasks : TimeoutFire(t)
    \/ \E t \in Tasks : Resume(t)
    \/ \E w \in Transports, ok \in BOOLEAN :
           \E f \in outbox[w] : HandlerResponse(w, f, ok)
    \/ \E w \in Transports, s \in SubIds : HandlerPush(w, s)
    \/ \E w \in Transports, s \in SubIds, i \in Ids \cup {0} :
           HandlerCallback(w, s, i)
    \/ \E w \in Transports : HandlerEnd(w)
    \/ \E w \in Transports, ok \in BOOLEAN : RemoteClose(w, ok)

CallbackSpec == CallbackInit /\ [][CallbackNext]_vars

\* The keepalive loops: one caller connects up to ProbeOps times over
\* MaxTransports transports; the loops probe, the remote answers or not, a
\* loop that sees a bad probe starts reconnect().
ProbeInit ==
    /\ Constructed
    /\ budget = [ops |-> ProbeOps, ws |-> MaxTransports, callers |-> 1]

ProbeNext ==
    \/ \E t \in Callers : Connect(t)
    \/ \E t \in Tasks, opened \in BOOLEAN, i \in Ids \cup {0} :
           ConnectOpen(t, opened, i)
    \/ \E t \in Tasks, ok \in BOOLEAN : CloseDone(t, ok)
    \/ \E t \in Tasks : Reconnect(t)
    \/ \E t \in Tasks : ReconnectWake(t)
    \/ \E t \in Tasks : SendFrame(t)
    \/ \E t \in Tasks : TimeoutFire(t)
    \/ \E t \in Tasks : Resume(t)
    \/ \E w \in Transports, ok \in BOOLEAN :
           \E f \in outbox[w] : HandlerResponse(w, f, ok)
    \/ \E w \in Transports : HandlerEnd(w)
    \/ \E t \in PingTasks, i \in Ids \cup {0} : PingWake(t, i)

ProbeSpec == ProbeInit /\ [][ProbeNext]_vars

\* --------------------------------------------------- MovingAverageStrategy
\* The sum of the last period prices of ps (calculate_ma, lines 19-27 of
\* moving_average.py, takes their mean: the sum over period).
RECURSIVE SumLast(_, _)
SumLast(ps, period) ==
    IF period = 0 \/ ps = <<>> THEN 0
    ELSE ps[Len(ps)] + SumLast(SubSeq(ps, 1, Len(ps) - 1), period - 1)

\* update(price), lines 29-42: the series after it.
update(ps, price) == Append(ps, price)

\* Fractions [num, den] with den > 0: a >= b, and min(a, 1.0).
AtLeast(a, b) == a.num * b.den >= b.num * a.den
Capped(a) == IF a.num > a.den THEN [num |-> 1, den |-> 1] ELSE a
Abs(x) == IF x < 0 THEN -x ELSE x

\* generate_signal() without the test of lines 46-48
generate_signal_Eager(ps) ==
    LET qs == IF ps = <<>> THEN ps ELSE update(ps, ps[Len(ps)])
        s == SumLast(qs, SHORT_MA_PERIOD)
        m == SumLast(qs, MEDIUM_MA_PERIOD)
        l == SumLast(qs, LONG_MA_PERIOD)
        strength == IF l > 0
                    THEN Capped([num |-> Abs(s * LONG_MA_PERIOD
                                             - l * SHORT_MA_PERIOD),
                                 den |-> l * SHORT_MA_PERIOD])
                    ELSE [num |-> 0, den |-> 1]
        over(a, pa, b, pb) == a * pb > b * pa
    IN
    IF /\ over(s, SHORT_MA_PERIOD, m, MEDIUM_MA_PERIOD)
       /\ over(m, MEDIUM_MA_PERIOD, l, LONG_MA_PERIOD)
    THEN [signal |-> "buy", strength |-> strength, prices |-> qs]
    ELSE IF /\ over(m, MEDIUM_MA_PERIOD, s, SHORT_MA_PERIOD)
            /\ over(l, LONG_MA_PERIOD, m, MEDIUM_MA_PERIOD)
    THEN [signal |-> "sell", strength |-> strength, prices |-> qs]
    ELSE [signal |-> "hold", strength |-> [num |-> 0, den |-> 1],
          prices |-> qs]

\* generate_signal(), lines 44-68, on the series ps: the signal, its
\* strength, and the series it leaves (line 50 calls update() with the last
\* price to get the three averages).  The averages are compared as sums
\* over periods, the quotes being whole numbers here.
generate_signal(ps) ==
    IF Len(ps) < LONG_MA_PERIOD
    THEN [signal |-> "hold", strength |-> [num |-> 0, den |-> 1], prices |-> ps]
    ELSE LET qs == update(ps, ps[Len(ps)])
             s == SumLast(qs, SHORT_MA_PERIOD)
             m == SumLast(qs, MEDIUM_MA_PERIOD)
             l == SumLast(qs, LONG_MA_PERIOD)
             strength == IF l > 0
                         THEN Capped([num |-> Abs(s * LONG_MA_PERIOD
                                                  - l * SHORT_MA_PERIOD),
                                      den |-> l * SHORT_MA_PERIOD])
                         ELSE [num |-> 0, den |-> 1]
             over(a, pa, b, pb) == a * pb > b * pa
         IN
         IF /\ over(s, SHORT_MA_PERIOD, m, MEDIUM_MA_PERIOD)
            /\ over(m, MEDIUM_MA_PERIOD, l, LONG_MA_PERIOD)
         THEN [signal |-> "buy", strength |-> strength, prices |-> qs]
         ELSE IF /\ over(m, MEDIUM_MA_PERIOD, s, SHORT_MA_PERIOD)
                 /\ over(l, LONG_MA_PERIOD, m, MEDIUM_MA_PERIOD)
         THEN [signal |-> "sell", strength |-> strength, prices |-> qs]
         ELSE [signal |-> "hold", strength |-> [num |-> 0, den |-> 1],
               prices |-> qs]

\* ------------------------------------------------------------------ trader
\* The sum of the profits in daily_trades (calculate_daily_stats,
\* helpers.py lines 59-93: total_profit).
RECURSIVE total_profit(_)
total_profit(trades) ==
    IF trades = <<>> THEN 0 ELSE Head(trades) + total_profit(Tail(trades))

\* check_risk_limits, helpers.py lines 95-113
check_risk_limits(trades) ==
    /\ ~(total_profit(trades) < -MAX_DAILY_LOSS)
    /\ ~(Len(trades) >= MAX_DAILY_TRADES)

\* The stake of lines 93-96 passes validate_trade_parameters (helpers.py
\* lines 131-153): calculate_optimal_stake returns 1.0 at least, the
\* constructor's stake_amount may be anything.
ValidStake == account_balance # 0 \/ stake_amount > 0

\* start(), lines 198-207: the balance is read and _handle_tick subscribed.
Start(bal, ok) ==
    /\ ticking = "no"
    /\ ~running
    /\ running' = TRUE
    /\ account_balance' = bal
    /\ ticking' = IF ok THEN "yes" ELSE "failed"
    /\ tev' = "start"
    /\ UNCHANGED <<active_contract, daily_trades, stake_amount, xpc, xsig,
                   mpc, bought, sent, nticks, prices>>
    /\ UNCHANGED manager

\* _execute_trade without the test of lines 82-84
ExecuteTrade_Unguarded(sig) ==
    IF Len(daily_trades') >= MAX_DAILY_TRADES
    THEN /\ tev' = "limit"
         /\ UNCHANGED <<active_contract, xpc, xsig, sent>>
    ELSE IF ~ValidStake
    THEN /\ tev' = "invalid"
         /\ UNCHANGED <<active_contract, xpc, xsig, sent>>
    ELSE /\ sent' = sent + 1
         /\ xpc' = "proposal"
         /\ xsig' = sig
         /\ tev' = "proposal"
         /\ UNCHANGED active_contract

\* _execute_trade(signal, price), lines 80-110: up to the proposal request
\* (daily_trades is the list as _handle_tick left it).
ExecuteTrade(sig) ==
    IF active_contract # None
    THEN /\ tev' = "skipped"
         /\ UNCHANGED <<active_contract, xpc, xsig, sent>>
    ELSE IF Len(daily_trades') >= MAX_DAILY_TRADES
    THEN /\ tev' = "limit"
         /\ UNCHANGED <<active_contract, xpc, xsig, sent>>
    ELSE IF ~ValidStake
    THEN /\ tev' = "invalid"
         /\ UNCHANGED <<active_contract, xpc, xsig, sent>>
    ELSE /\ sent' = sent + 1
         /\ xpc' = "proposal"
         /\ xsig' = sig
         /\ tev' = "proposal"
         /\ UNCHANGED active_contract

\* _handle_tick(response), lines 51-78, called and awaited by the feed of
\* the tick subscription: newDay is date.today() != last_trade_date, price
\* the quote of the tick.
HandleTick(newDay, price) ==
    /\ ticking = "yes"
    /\ xpc = "idle"
    /\ nticks < MaxTicks
    /\ nticks' = nticks + 1
    /\ daily_trades' = IF newDay THEN <<>> ELSE daily_trades
    /\ IF ~check_risk_limits(daily_trades')
       THEN /\ running' = FALSE
            /\ tev' = "limits"
            /\ UNCHANGED <<active_contract, xpc, xsig, sent, prices>>
       ELSE LET g == generate_signal(update(prices, price))
            IN
            /\ prices' = g.prices
            /\ IF g.signal # "hold" /\ AtLeast(g.strength, SIGNAL_THRESHOLD)
               THEN ExecuteTrade(g.signal)
               ELSE /\ tev' = "tick"
                    /\ UNCHANGED <<active_contract, xpc, xsig, sent>>
            /\ UNCHANGED running
    /\ UNCHANGED <<account_balance, stake_amount, ticking, mpc, bought>>
    /\ UNCHANGED manager

\* The proposal request returns, lines 111-122: an error, or a proposal that
\* is bought, or send_request raises or answers without a proposal.
ProposalReturns(out) ==
    /\ xpc = "proposal"
    /\ IF out = "ok"
       THEN /\ sent' = sent + 1
            /\ xpc' = "buy"
            /\ tev' = "buy"
            /\ UNCHANGED xsig
       ELSE /\ xpc' = "idle"
            /\ xsig' = "hold"
            /\ tev' = IF out = "error" THEN "refused" ELSE "raised"
            /\ UNCHANGED sent
    /\ UNCHANGED <<active_contract, daily_trades, account_balance,
                   stake_amount, running, ticking, mpc, bought, nticks, prices>>
    /\ UNCHANGED manager

\* The buy request returns, lines 124-136: the contract becomes the active
\* one and a _monitor_contract task is created for it.
BuyReturns(out) ==
    /\ xpc = "buy"
    /\ out = "ok" => bought < MaxContracts
    /\ xpc' = "idle"
    /\ xsig' = "hold"
    /\ IF out = "ok"
       THEN /\ active_contract' = bought + 1
            /\ bought' = bought + 1
            /\ mpc' = [mpc EXCEPT ![bought + 1] = "created"]
            /\ tev' = "bought"
       ELSE /\ tev' = IF out = "error" THEN "refused" ELSE "raised"
            /\ UNCHANGED <<active_contract, bought, mpc>>
    /\ UNCHANGED <<daily_trades, account_balance, stake_amount, running,
                   ticking, sent, nticks, prices>>
    /\ UNCHANGED manager

\* _monitor_contract(contract_id), lines 138-148: its subscribe returns.
MonitorContract(c, ok) ==
    /\ mpc[c] = "created"
    /\ mpc' = [mpc EXCEPT ![c] = IF ok THEN "watching" ELSE "failed"]
    /\ active_contract' = IF ok THEN active_contract ELSE None
    /\ tev' = "monitor"
    /\ UNCHANGED <<daily_trades, account_balance, stake_amount, running,
                   ticking, xpc, xsig, bought, sent, nticks, prices>>
    /\ UNCHANGED manager

\* _handle_contract_update(response), lines 150-180, for an update of
\* contract c: profit and bal are its profit and balance_after fields, or
\* Missing.  contract["profit"] (line 158) and contract["balance_after"]
\* (line 172) raise KeyError on a field that is missing; the second one after
\* the trade has been appended to daily_trades.
HandleContractUpdate(c, sold, profit, bal) ==
    /\ mpc[c] = "watching"
    /\ sold => Len(daily_trades) <= MAX_DAILY_TRADES
    /\ IF ~sold
       THEN /\ tev' = "update"
            /\ UNCHANGED <<daily_trades, account_balance, active_contract>>
       ELSE IF profit = Missing
       THEN /\ tev' = "soldRaised"
            /\ UNCHANGED <<daily_trades, account_balance, active_contract>>
       ELSE IF bal = Missing
       THEN /\ daily_trades' = Append(daily_trades, profit)
            /\ tev' = "soldRaised"
            /\ UNCHANGED <<account_balance, active_contract>>
       ELSE /\ daily_trades' = Append(daily_trades, profit)
            /\ account_balance' = bal
            /\ active_contract' = None
            /\ tev' = "sold"
    /\ UNCHANGED <<stake_amount, running, ticking, xpc, xsig, mpc, bought,
                   sent, nticks, prices>>
    /\ UNCHANGED manager

Outcomes == {"ok", "error", "raises"}

\* The trader over an api that answers anything: main() starts it once.
TraderInit ==
    /\ Created
    /\ Built
    /\ stake_amount \in StakeAmounts
    /\ budget = [ops |-> 0, ws |-> 0, callers |-> 0]

TraderNext ==
    \/ \E bal \in {0, 1}, ok \in BOOLEAN : Start(bal, ok)
    \/ \E newDay \in BOOLEAN, price \in Quotes : HandleTick(newDay, price)
    \/ \E out \in Outcomes : ProposalReturns(out)
    \/ \E out \in Outcomes : BuyReturns(out)
    \/ \E c \in Contracts, ok \in BOOLEAN : MonitorContract(c, ok)
    \/ \E c \in Contracts, sold \in BOOLEAN, profit \in Profits \cup {Missing},
          bal \in {0, 1, Missing} : HandleContractUpdate(c, sold, profit, bal)

TraderSpec == TraderInit /\ [][TraderNext]_vars

\* ================================================================== claims
\* Requests registered by _send_request whose future nobody has completed.
InFlight == {t \in Tasks : pc[t] \in {"sending", "waiting"}}

\* C1: every pending request is completed exactly once and its entry leaves
\* pending_requests with it.  Two consequences, true in every state if the
\* claim is: a request that is not completed yet is still the one registered
\* under its identifier (otherwise neither a response nor disconnect() can
\* complete it), and the handler never tries to complete a future that is
\* already done (set_result then raises and ends the dispatch loop).
C1_CompletedExactlyOnce ==
    /\ \A t \in InFlight : fut[t] = "pending" => pending_requests[rid[t]] = t
    /\ \A w \in Transports : hpc[w] # "crashed"

\* C2: a response returned by send_request in live operation is the answer
\* to the frame that the same caller sent.
C2_OwnResponse ==
    (lastRet.op = "send_request" /\ lastRet.val = "response")
        => lastRet.from = lastRet.task

\* C3: registering a request never replaces the entry of another request:
\* an identifier that is a key of pending_requests keeps its request until
\* the entry is removed.
C3_FreshIdentifier ==
    [][\A i \in Ids : pending_requests[i] # 0
            => pending_requests'[i] \in {0, pending_requests[i]}]_vars

\* C4: every send_request call eventually returns to its caller, whatever
\* happens to the connection meanwhile.
C4_SendRequestReturns ==
    \A t \in Callers : (op[t] = "send_request") ~> (op[t] # "send_request")

\* A send_request whose response never came has returned, after its timeout.
C4_ReturnedAfterTimeout ==
    lastRet.op = "send_request" /\ lastRet.val = "timeout"

\* C5: a send_request that was outstanding when disconnect() ran returns a
\* connection-lost error: neither a normal response nor its timeout.
C5_ConnectionLost ==
    (lastRet.op = "send_request" /\ lastRet.doomed)
        => lastRet.val \in {"connlost", "senderr"}

\* C6: once disconnect() has returned, no callback of a subscription that
\* was registered before it is invoked again.
C6_NoCallbackAfterDisconnect ==
    [][\A s \in deadSubs : cbTick'[s] = cbTick[s]]_vars

\* C7: in the state right after disconnect() returns there is no transport,
\* no pending request, no subscription, and the state is Disconnected.
C7_CleanAfterDisconnect ==
    lastRet.op = "disconnect"
        => /\ websocket = None
           /\ \A i \in Ids : pending_requests[i] = 0
           /\ subscriptions = {}
           /\ ~is_connected

\* C8: when the handler's iteration ends with a connection-closed condition
\* the state leaves Live and the handler resolves, in that step, every
\* request pending on the transport with a connection-lost error.
C8_FailureResolvesPending ==
    [][\A w \in Transports :
          (hpc[w] = "reading" /\ wsState[w] = "closedErr" /\ hpc'[w] = "none")
              => /\ ~is_connected'
                 /\ \A t \in Tasks :
                        (pc[t] = "waiting" /\ tws[t] = w /\ fut[t] = "pending")
                            => fut'[t] = "exception"]_vars

\* A session is up: simulated, or the handshake succeeded on the current
\* transport, which is open (or has just failed and its handler, still
\* running, is about to notice).
SessionUp ==
    \/ simulation_mode
    \/ /\ websocket # None
       /\ account_info = websocket
       /\ \/ wsState[websocket] = "open"
          \/ wsState[websocket] = "closedErr" /\ hpc[websocket] = "reading"

\* C9: in every reachable state is_connected is true only while a session
\* is up.
C9_ConnectedOnlyWhileSessionUp == is_connected => SessionUp

\* This step is a call of send_request or subscribe.
CallsRequest ==
    /\ nops' = nops + 1
    /\ \/ lastRet'.op \in {"send_request", "subscribe"}
       \/ \E t \in Callers : /\ op[t] = "none"
                             /\ op'[t] \in {"send_request", "subscribe"}

\* C10: send_request and subscribe called in a state other than Live return
\* the rejection value and change neither the connection state, nor the
\* registries, nor anything on a transport.
C10_RejectedUnlessLive ==
    [][(CallsRequest /\ ~(is_connected /\ SessionUp))
           => (lastRet'.val = "None" /\ UNCHANGED <<conn, regs, wire>>)]_vars

\* C10, the part the guards of lines 530, 535, 564 and 581 do enforce: a call
\* made while is_connected is false, or in live operation with no websocket,
\* is rejected and changes nothing.
C10_RejectedWhenFlagDown ==
    [][(CallsRequest /\ (~is_connected \/ (~simulation_mode /\ websocket = None)))
           => (lastRet'.val = "None" /\ UNCHANGED <<conn, regs, wire>>)]_vars

\* C11: once unsubscribe(id) has returned True, no invocation of the
\* callback registered under id begins.
C11_NoCallbackAfterUnsubscribe ==
    [][\A s \in SubIds : unsub[s] = "done" => cbTick'[s] = cbTick[s]]_vars

\* C12: if unsubscribe(id) is called while id is registered and before its
\* callback was ever invoked, the callback is never invoked at all.
C12_UnsubscribedBeforeFirstPush ==
    [][\A s \in SubIds :
          (unsub[s] # "no" /\ cbTick[s] = 0) => cbTick'[s] = 0]_vars

\* The bounded wait of the request that sent frame f has elapsed.
TimedOut(f) ==
    /\ pc[f.from] = "waiting"
    /\ rid[f.from] = f.rid
    /\ fut[f.from] = "cancelled"

\* C13: a response that arrives after its request's bounded wait elapsed is
\* dropped with no observable effect: the dispatch loop goes on, no future
\* is touched, no callback is invoked, no connection state changes.
C13_LateResponseDropped ==
    [][\A w \in Transports : \A f \in outbox[w] :
          (/\ hpc[w] = "reading"
           /\ wsState'[w] = "open"
           /\ f \notin outbox'[w]
           /\ TimedOut(f))
              => (hpc'[w] = "reading" /\ UNCHANGED <<conn, fut, cbTick>>)]_vars

\* C14: the timeout of one request removes only its own pending entry.
C14_TimeoutRemovesOwnEntry ==
    [][\A t \in Tasks :
          (pc[t] = "waiting" /\ fut[t] = "cancelled" /\ pc'[t] # "waiting")
              => \A i \in Ids : pending_requests[i] \notin {0, t}
                     => pending_requests'[i] = pending_requests[i]]_vars
\* Task t calls reconnect() in this step.
CallsReconnect(t) ==
    /\ pc[t] \in {"idle", "created"}
    /\ \/ pc'[t] = "rsleep"
       \/ lastRet' # NoRet /\ lastRet'.task = t /\ lastRet'.op = "reconnect"

\* C15: reconnection attempts are bounded.  Over a run of consecutive failing
\* reconnect() calls (since the last successful connection) the transport-open
\* attempts of reconnect() never exceed MAX_RECONNECT_ATTEMPTS, and a
\* reconnect() called after MAX_RECONNECT_ATTEMPTS consecutive failures
\* returns failure at once: it opens no transport and sends no frame.
C15_BoundedReconnection ==
    /\ [](run.opens <= MAX_RECONNECT_ATTEMPTS)
    /\ [][\A t \in Tasks :
             (run.failures >= MAX_RECONNECT_ATTEMPTS /\ CallsReconnect(t))
                => /\ lastRet' # NoRet
                   /\ lastRet'.val = "false"
                   /\ UNCHANGED <<websocket, wire>>]_vars

\* C16: a live reconnect() gives up (returns failure without an attempt)
\* exactly when the counter it has just incremented exceeds
\* MAX_RECONNECT_ATTEMPTS: while the counter is at most the maximum the call
\* makes a real attempt.
C16_GivesUpWhenExceeded ==
    [][\A t \in Tasks :
          (CallsReconnect(t) /\ ~simulation_mode)
             => ((lastRet' # NoRet /\ lastRet'.val = "false")
                    <=> connection_attempts' > MAX_RECONNECT_ATTEMPTS)]_vars

\* The reconnect() calls that are making an attempt: between the sleep of
\* line 412 and the return of connect(), line 428.
Reconnecting == {t \in Tasks : op[t] = "reconnect" /\ pc[t] \notin {"idle", "created"}}

\* C17: at most one reconnection attempt is in progress at any time (a second
\* reconnect() begins no attempt of its own while another one is running).
C17_SingleFlight == Cardinality(Reconnecting) <= 1

\* The _ping_handler of transport w sees its probe fail while is_connected
\* is set: lines 1070-1074 or 1078-1082.
KeepaliveFails(w) ==
    /\ op[PingTask(w)] = "ping_handler"
    /\ is_connected
    /\ pc'[PingTask(w)] = "idle"

\* The failing loop clears is_connected, creates one reconnect() task and
\* ends.
C18_FailureStartsReconnect ==
    [][\A w \in Transports :
          KeepaliveFails(w) => /\ ~is_connected'
                               /\ pc[RcTask(w)] = "idle"
                               /\ pc'[RcTask(w)] = "created"
                               /\ op'[PingTask(w)] = "none"]_vars

\* C18: a keepalive probe that fails while the connection is live makes the
\* state leave Live, ends the failing loop and starts one reconnection
\* sequence, and the reconnection a keepalive failure started never runs
\* concurrently with another one.
C18_KeepaliveFailure ==
    /\ C18_FailureStartsReconnect
    /\ [](\A t \in RcTasks : t \in Reconnecting => Reconnecting = {t})

\* C19: when a live connect() that began with no connection returns success,
\* is_connected is set, account_info holds the handshake response, a
\* _message_handler is reading the opened transport and the _ping_handler of
\* that transport is running.
C19_LiveAfterConnect ==
    (/\ lastRet # NoRet
     /\ lastRet.op = "connect"
     /\ lastRet.val = "true"
     /\ lastRet.cold
     /\ ~simulation_mode)
        => /\ is_connected
           /\ websocket # None
           /\ account_info = websocket
           /\ hpc[websocket] = "reading"
           /\ op[PingTask(websocket)] = "ping_handler"

\* C20: a live connect() that reports failure (the transport did not open, or
\* the handshake response carried an error) leaves the manager Disconnected:
\* is_connected false, no transport, no pending request, and account_info
\* not replaced.
C20_FailedConnectDisconnected ==
    [][(/\ lastRet' # NoRet
        /\ lastRet'.op = "connect"
        /\ lastRet'.val = "false"
        /\ ~simulation_mode')
          => /\ ~is_connected'
             /\ websocket' = None
             /\ pending_requests' = [i \in Ids |-> 0]
             /\ account_info' = account_info]_vars

\* The endpoints a connection starts from: the one __init__ sets (line 54)
\* and the configured ones switch_account sets (line 706).
PrimaryEndpoints ==
    {"wss://ws.binaryws.com", DERIV_WSS_ENDPOINT, DERIV_DEMO_WSS_ENDPOINT}

\* A live reconnect() returns success in this state.
ReconnectSucceeded ==
    /\ lastRet # NoRet
    /\ lastRet.op = "reconnect"
    /\ lastRet.val = "true"
    /\ ~simulation_mode

\* After a successful reconnect() the endpoint is a primary one again.
C21_RotationReset == ReconnectSucceeded => endpoint \in PrimaryEndpoints

\* C21: when a live reconnect() returns success the attempt counter is 0, the
\* endpoint is a primary one again, is_connected is set, and a
\* _message_handler and a _ping_handler are running on the new transport.
C21_LiveAfterReconnect ==
    ReconnectSucceeded
        => /\ connection_attempts = 0
           /\ endpoint \in PrimaryEndpoints
           /\ is_connected
           /\ websocket # None
           /\ hpc[websocket] = "reading"
           /\ op[PingTask(websocket)] = "ping_handler"

\* A frame that is not valid JSON, or not a JSON object, or whose
\* subscription field is not an object.
Malformed(fr) ==
    \/ fr.shape \in {"text", "value"}
    \/ fr.shape = "object" /\ fr.sub = BadSub

\* C22: a malformed inbound frame does not end the dispatch loop: the handler
\* that read it goes on reading.
C22_MalformedDiscarded ==
    [][(inbound' # NoFrame /\ Malformed(inbound'))
          => hpc'[inbound'.w] = "reading"]_vars

\* Text that is not JSON is discarded: nothing changes.
C22_NotJsonDiscarded ==
    [][(inbound' # NoFrame /\ inbound'.shape = "text")
          => UNCHANGED <<conn, regs, now, wire, task, bg, hist>>]_vars

Matched(fr) == IF fr.req_id # 0 THEN pending_requests[fr.req_id] ELSE 0

\* How the claim has frame fr routed in this step.
Routed(fr) ==
    IF Matched(fr) # 0
    THEN /\ pending_requests'[fr.req_id] = 0
         /\ fut'[Matched(fr)] = "result"
         /\ cbTick' = cbTick
    ELSE IF fr.push /\ fr.sub \in subscriptions
    THEN /\ cbTick'[fr.sub] # cbTick[fr.sub]
         /\ \A s \in SubIds \ {fr.sub} : cbTick'[s] = cbTick[s]
         /\ UNCHANGED <<regs, fut>>
    ELSE UNCHANGED <<conn, regs, now, wire, task, bg, hist>>

\* C24: the dispatch loop routes each inbound frame by priority: a frame whose
\* req_id matches a pending request resolves that request and reaches no
\* callback; otherwise a push carrying a registered subscription id goes to
\* that subscription's callback and no other; every other frame is discarded
\* with no state change.
C24_RoutingPriority ==
    [][inbound' # NoFrame => Routed(inbound')]_vars

\* The same for the frames that are objects with a well-formed subscription
\* field and do not answer a request that has already timed out.
C24_WellFormedRouted ==
    [][(/\ inbound' # NoFrame
        /\ ~Malformed(inbound')
        /\ Matched(inbound') # 0 => fut[Matched(inbound')] = "pending")
          => Routed(inbound')]_vars

\* The transports a _message_handler is iterating.
Dispatching == {w \in Transports : hpc[w] = "reading" /\ wsState[w] = "open"}

\* C25: at most one dispatch loop is running, and it reads the manager's
\* current transport.
C25_OneDispatchLoop ==
    /\ Cardinality(Dispatching) <= 1
    /\ \A w \in Dispatching : w = websocket

\* Caller t calls disconnect() in this step.
CallsDisconnect(t) ==
    /\ t \in Callers
    /\ pc[t] = "idle"
    /\ \/ lastRet' # NoRet /\ lastRet'.task = t /\ lastRet'.op = "disconnect"
       \/ op'[t] = "disconnect"

\* C26: disconnect() is idempotent: called right after a disconnect() returned,
\* or on a manager nothing was ever called on, it returns at once, resolves
\* no request and leaves the state as it was.
C26_DisconnectIdempotent ==
    [][\A t \in Callers :
          (/\ CallsDisconnect(t)
           /\ nops = 0 \/ (lastRet # NoRet /\ lastRet.op = "disconnect"))
             => /\ lastRet' # NoRet
                /\ lastRet'.val = "None"
                /\ UNCHANGED <<conn, regs, wire, fut, bg>>]_vars

\* A second disconnect() returned right after a first one that closed a
\* transport.
C26_DisconnectedTwice ==
    /\ lastRet # NoRet
    /\ lastRet.op = "disconnect"
    /\ lastRet.again
    /\ \E w \in Transports : wsState[w] = "closed"

\* Caller t calls switch_account() in this step, asking for the account the
\* manager already uses (a call for the other account changes is_demo at
\* once, or suspends in disconnect() holding the other account as argument).
CallsSwitchToSame(t) ==
    /\ t \in Callers
    /\ pc[t] = "idle"
    /\ \/ lastRet' # NoRet /\ lastRet'.task = t
                           /\ lastRet'.op = "switch_account"
       \/ op'[t] = "switch_account"
    /\ is_demo' = is_demo
    /\ pc'[t] = "closing" => use_demo'[t] = is_demo

\* C27: switch_account called with the account the manager already uses
\* returns success at once and changes nothing: no disconnect, no frame, the
\* connection state, session, endpoint, pending requests and subscriptions
\* stay as they were.
C27_SwitchToSameIsNoOp ==
    [][\A t \in Callers :
          CallsSwitchToSame(t)
             => /\ lastRet' # NoRet
                /\ lastRet'.val = "true"
                /\ UNCHANGED <<conn, regs, wire, fut, bg>>]_vars

\* switch_account returned at once on a live, connected manager.
C27_SwitchedToSameWhileLive ==
    /\ lastRet # NoRet
    /\ lastRet.op = "switch_account"
    /\ lastRet.val = "true"
    /\ lastRet.from = 0
    /\ ~simulation_mode
    /\ is_connected
    /\ websocket # None

\* unsubscribe() of caller t returns in this step.
UnsubscribeReturns(t) ==
    /\ lastRet' # NoRet
    /\ lastRet'.task = t
    /\ lastRet'.op = "unsubscribe"

\* The future of t holds the remote's acknowledgement of a forget request.
Confirmed(t) ==
    /\ pc[t] = "waiting"
    /\ fut[t] = "result"
    /\ resp[t].ok
    /\ resp[t].kind = "forget"

\* C28: unsubscribe removes a subscription from the registry only when the
\* remote has confirmed the cancellation; an unsubscribe that returns False
\* leaves the registry as it was, and an unsubscribe called while the manager
\* is not connected is refused: it returns False.
C28_RemovedOnlyWhenConfirmed ==
    [][\A t \in Callers :
          UnsubscribeReturns(t)
             => /\ lastRet'.val = "false" => UNCHANGED subscriptions
                /\ subscriptions' # subscriptions => Confirmed(t)
                /\ pc[t] = "idle" /\ ~is_connected => lastRet'.val = "false"]_vars

\* The same for every unsubscribe that takes the path of lines 629-652 (the
\* manager is not in simulation mode when unsubscribe is called).
C28_LiveUnsubscribe ==
    [][\A t \in Callers :
          UnsubscribeReturns(t) /\ ~(pc[t] = "idle" /\ simulation_mode)
             => /\ lastRet'.val = "false" => UNCHANGED subscriptions
                /\ subscriptions' # subscriptions => Confirmed(t)
                /\ lastRet'.val = "true" => Confirmed(t)
                /\ pc[t] = "idle" => lastRet'.val = "false"]_vars

\* The _ping_handler loops that are running (asleep, or with a probe sent or
\* about to be sent).
Supervising == {t \in PingTasks : op[t] = "ping_handler"}

\* The probes not resolved yet: registered, with a future still pending.
Probing == {t \in PingTasks : /\ op[t] = "ping_handler"
                              /\ pc[t] \in {"sending", "waiting"}
                              /\ fut[t] = "pending"}

\* C29: at most one keepalive loop runs for the connection manager, and at
\* most one keepalive probe is outstanding at any time.
C29_OneProbeOutstanding ==
    /\ Cardinality(Supervising) <= 1
    /\ Cardinality(Probing) <= 1

\* A keepalive loop sends a probe only when it has none outstanding: the
\* step that registers the probe of loop t starts with no request of t
\* registered.
C29_LoopIsSequential ==
    [][\A t \in PingTasks :
          pc'[t] = "sending" /\ pc[t] # "sending"
             => /\ pc[t] = "psleep"
                /\ fut[t] = "none"
                /\ \A i \in Ids : pending_requests[i] # t]_vars

\* A step of _execute_trade: its call, or the return of one of its requests.
ExecuteTradeSteps ==
    tev' \in {"skipped", "limit", "invalid", "proposal", "buy", "bought",
              "refused", "raised"}

\* C30: while the trader has an active contract, no step of _execute_trade
\* sends a request (proposal or buy) to the connection manager or changes
\* active_contract, whatever the signal and whatever ticks came before.
C30_NoTradeWhileActive ==
    [][active_contract # None /\ ExecuteTradeSteps
          => /\ sent' = sent
             /\ active_contract' = active_contract
             /\ tev' = "skipped"]_vars

\* _execute_trade was called while a contract was active, and skipped.
C30_SkippedSignal ==
    /\ tev = "skipped"
    /\ active_contract # None
    /\ xsig = "hold"
    /\ sent > 0

\* C31: whenever _handle_contract_update has handled an update whose
\* contract has is_sold true, active_contract is None afterwards.
C31_SoldClearsActiveContract ==
    tev \in {"sold", "soldRaised"} => active_contract = None

\* The same for the updates that carry both profit and balance_after.
C31_CompleteUpdateClears ==
    tev = "sold" => active_contract = None

\* _handle_tick handles a tick in this step.
HandlesTick == nticks' = nticks + 1

\* C32: while the strategy has been fed fewer prices than its long period,
\* generate_signal returns hold with strength 0.0, the tick sends no proposal
\* or buy request, and active_contract is None still.
C32_HoldOnInsufficientData ==
    /\ [](Len(prices) < LONG_MA_PERIOD
            => /\ generate_signal(prices).signal = "hold"
               /\ generate_signal(prices).strength.num = 0
               /\ active_contract = None
               /\ sent = 0)
    /\ [][HandlesTick /\ Len(prices') < LONG_MA_PERIOD
             => /\ tev' \in {"tick", "limits"}
                /\ sent' = sent
                /\ xpc' = "idle"
                /\ active_contract' = None]_vars

\* Ticks have been handled, and the strategy still has too few prices.
C32_WaitingForData ==
    /\ tev = "tick"
    /\ nticks = LONG_MA_PERIOD - 1
    /\ Len(prices) = LONG_MA_PERIOD - 1

\* C33: a pending request is never resolved with a response before its own
\* frame has been handed to the transport.
C33_SentBeforeResolved ==
    \A t \in Tasks : pc[t] = "sending" => fut[t] # "result"

\* A request whose frame is not sent yet is resolved only by the answer to
\* another request's frame that carries the same identifier.
C33_OwnIdentifierOrdered ==
    [][\A t \in Tasks :
          (pc[t] = "sending" /\ fut[t] = "pending" /\ fut'[t] = "result")
             => \E w \in Transports : \E f \in outbox[w] : f.rid = rid[t]]_vars

\* C34: a response read for a request whose wait has timed out, the future
\* cancelled and the entry still in pending_requests, does not end the
\* dispatch loop.
C34_LateResponseKeepsLoop ==
    [][\A w \in Transports :
          (/\ hpc[w] = "reading"
           /\ \E t \in Tasks : /\ pc[t] = "waiting"
                               /\ fut[t] = "cancelled"
                               /\ pending_requests[rid[t]] = t
                               /\ pending_requests'[rid[t]] = 0)
             => hpc'[w] = "reading"]_vars

\* The handler reads, in this step, a push frame of subscription s, one the
\* remote has confirmed on the transport the frame comes over.
ReadsPushOf(s) ==
    /\ inbound' # NoFrame
    /\ inbound'.shape = "object"
    /\ inbound'.push
    /\ inbound'.req_id = 0
    /\ inbound'.sub = s
    /\ s \in srvSubs[inbound'.w]

\* C36: every push frame of a confirmed subscription that the dispatch loop
\* reads after the confirming response is delivered to the callback, also
\* when the subscribe() caller has not resumed yet.
C36_NoPushLost ==
    [][\A s \in SubIds : ReadsPushOf(s) => cbTick'[s] # cbTick[s]]_vars

\* The same for the frames read once subscribe() has stored the callback.
C36_DeliveredOnceStored ==
    [][\A s \in SubIds :
          ReadsPushOf(s) /\ s \in subscriptions
             => cbTick'[s] # cbTick[s]]_vars

\* The request a callback awaits: its frame is sent and not answered yet, on
\* a transport that is open and whose handler has not ended.
AwaitedByCallback(w) ==
    /\ pc[CbTask(w)] = "waiting"
    /\ fut[CbTask(w)] = "pending"
    /\ wsState[tws[CbTask(w)]] = "open"
    /\ hpc[tws[CbTask(w)]] = "reading"
    /\ \E f \in outbox[tws[CbTask(w)]] : f.from = CbTask(w)

\* C35: while a subscription callback is executing, responses are still
\* routed to pending requests: the handler of the transport that carries the
\* request the callback awaits is reading frames, so that the response
\* resolves the request when it arrives.
C35_RoutedDuringCallback ==
    \A w \in Transports : AwaitedByCallback(w) => Reading(tws[CbTask(w)])

\* A request made and awaited by a callback never returns a response (one
\* transport: the request goes over the transport of the handler that
\* awaits the callback).
C35_CallbackStarves ==
    lastRet.op = "callback" => lastRet.val # "response"


\* Some connect() has been handed the response to its authorize request and
\* has yet to run on from line 109.
HandshakeAnswered ==
    \E t \in Tasks : /\ op[t] \in {"connect", "reconnect", "switch_account"}
                     /\ pc[t] = "waiting"
                     /\ fut[t] = "result"
                     /\ resp[t].ok

\* C37: whenever is_connected is true (and no connect() is about to record
\* the response it has just been handed) a Session is present, account_info
\* is not None, and it is the result of the most recent successful
\* authentication.
C37_ConnectedHasSession ==
    is_connected /\ ~HandshakeAnswered =>
        /\ account_info # None
        /\ account_info = authenticated

\* C37, its first half alone: a Session is present whenever is_connected is
\* true.
C37_SessionPresent == is_connected => account_info # None

\* C37, the part that holds: a connect() that returns True leaves a Session
\* behind, in both modes.
C37_ConnectLeavesSession ==
    [][lastRet'.task # None /\ lastRet'.op = "connect" /\ lastRet'.val = "true"
           => is_connected' /\ account_info' # None]_vars


\* The dispatch loop of transport w meets the abnormal close of its transport
\* in this step (lines 338-340).
LoopEnds(w) == hpc[w] = "reading" /\ wsState[w] = "closedErr" /\ hpc'[w] = "none"

\* C38: the dispatch loop of a transport that disconnect() closed (on its
\* own or inside reconnect()) does not set is_connected back to false once
\* a later connect() has made the state Live.
C38_OldLoopKeepsLive ==
    [][\A w \in Transports :
           LoopEnds(w) /\ w # websocket /\ is_connected => is_connected']_vars

\* C38, the part that holds: the old loop touches nothing but is_connected.
C38_OldLoopOnlyClears ==
    [][\A w \in Transports :
           LoopEnds(w) => UNCHANGED <<websocket, account_info, regs, task>>]_vars


\* The callback of subscription s was called in this step and raised.
CallbackRaised(s) ==
    /\ inbound' # NoFrame
    /\ inbound'.sub = s
    /\ inbound'.raises
    /\ cbTick'[s] # cbTick[s]

\* C39: a callback that raises keeps its subscription, in simulated operation
\* as in live operation: the subscription is still registered after the
\* exception and what delivers its updates (the simulated feed, the dispatch
\* loop) goes on.
C39_RaisingCallbackKeepsSubscription ==
    [][\A s \in SubIds :
           CallbackRaised(s) /\ s \in subscriptions
               => /\ s \in subscriptions'
                  /\ IF inbound'.w = 0 THEN fpc'[s] = "check"
                     ELSE hpc'[inbound'.w] = "reading"]_vars

\* C39, the part that holds: a callback that returns keeps its simulated
\* feed going.
C39_ReturningCallbackKeepsFeed ==
    [][\A s \in SubIds :
           (/\ inbound' # NoFrame
            /\ inbound'.w = 0
            /\ inbound'.sub = s
            /\ ~inbound'.raises
            /\ s \in subscriptions)
               => s \in subscriptions' /\ fpc'[s] = "check"]_vars


\* C40: generate_signal leaves the price series unchanged, so a tick that
\* _handle_tick passes to the strategy adds exactly one price to it.
C40_OnePricePerTick ==
    /\ [](generate_signal(prices).prices = prices)
    /\ [][HandlesTick /\ tev' # "limits"
             => Len(prices') = Len(prices) + 1]_vars

\* C40, the part that holds: until the series reaches the long period a tick
\* adds one price, the one of the tick.
C40_OnePriceWhileShort ==
    [][HandlesTick /\ tev' # "limits" /\ Len(prices) + 1 < LONG_MA_PERIOD
          => /\ Len(prices') = Len(prices) + 1
             /\ SubSeq(prices', 1, Len(prices)) = prices]_vars

====
